---- MODULE Spec2Model ----
(***************************************************************************)
(* Model of memMap.py: MapEntry and MemoryMap.                             *)
(*                                                                         *)
(* MemoryMap.load reads a linker map report in one pass: it cuts the text  *)
(* at two anchor phrases, parses the region table line by line into Memory *)
(* entries, then parses the symbol map line by line into Module and Global *)
(* entries while tracking three cursors (currentModule, lastItem,          *)
(* okSection).  Each parsing action below is one iteration of one of the   *)
(* two for-loops of load(); the line it consumes is drawn from a small     *)
(* alphabet of tokenised lines.  After load() the query methods, the       *)
(* diagnostics (sizePercent, statsStr, diagnose) and, once a second map    *)
(* has been constructed, differences() run against the finished entry      *)
(* list; each call is one action that leaves its outcome in `result`       *)
(* (the entry returned, the list or value returned in `out`, or the fact   *)
(* that it raised).  `other` is the map constructed before the current one.*)
(*                                                                         *)
(* A line is a record [indent, toks]: indent says whether the line starts  *)
(* with white space, toks are its white-space separated tokens.  A token   *)
(* is either a word [k |-> "word", s |-> <string>] or a hexadecimal-looking *)
(* token [k |-> "hex", ds |-> <digits>] standing for the text "0x" followed *)
(* by the characters ds, each character given by its value in 0..35        *)
(* (0-9, then a-z); a character above 15 is no hexadecimal digit.          *)
(*                                                                         *)
(* Entries are referred to by their position in the entry list (a handle); *)
(* 0 is Python's None.                                                     *)
(***************************************************************************)
EXTENDS Integers, Sequences, FiniteSets, TLC

VARIABLES report, pc, err, entries, currentModule, lastItem, okSection, result,
          other

vars == <<report, pc, err, entries, currentModule, lastItem, okSection, result,
          other>>

\* ---------------------------------------------------------------- bounds

\* Most rows of the region table that yield a Memory entry.
MaxRegions == 1

\* Most rows of the symbol map that yield a Module or a Global entry.
MaxMapEntries == 4

\* The same, for the reports whose maps are queried.
MaxQueryEntries == 3

\* The same, for two reports together whose maps are compared.
MaxDiffEntries == 3

\* The same, for two reports together whose maps are put to every use.
MaxUseEntries == 2

\* -------------------------------------------------------------- constants

\* The "no value" sentinel of size and end (defaults of MapEntry.__init__).
Unknown == -1

\* Python's None for an entry handle.
None == 0

\* Base of int(token, base=16).
HexBase == 16

\* Fewest characters after "0x" in an Address token ({8,} in the map regex).
MinAddressDigits == 8

\* ----------------------------------------------------------------- tokens

W(s) == [k |-> "word", s |-> s, ds |-> <<>>]

H(ds) == [k |-> "hex", s |-> "", ds |-> ds]

\* Words that contain a '*' (the region regex's Name group excludes it).
StarWords == {"*default*", "*fill*"}

\* Words whose first character is '.'.
DotWords == {".bss", ".debug", ".data1"}

\* Words made only of the characters [._()a-zA-Z] of the SectionName group.
SectionWords == {".bss", ".debug", "data", "COMMON"}

\* int(text, base=16) of the digit characters ds, most significant first.
RECURSIVE DigitsValue(_)
DigitsValue(ds) ==
    IF ds = <<>> THEN 0
    ELSE HexBase * DigitsValue(SubSeq(ds, 1, Len(ds) - 1)) + ds[Len(ds)]

\* Whether int(token, base=16) accepts the token (otherwise ValueError).
IsHexNumber(t) ==
    /\ t.k = "hex"
    /\ Len(t.ds) >= 1
    /\ \A i \in 1..Len(t.ds) : t.ds[i] < HexBase

HexValue(t) == DigitsValue(t.ds)

\* ---------------------------------------------------------------- entries

\* A constructor that stores the size it is given and ignores the end.
MapEntrySizeOnly(section, module, entryType, name, address, size, end, access) ==
    [ section   |-> section,
      module    |-> module,
      entryType |-> entryType,
      name      |-> name,
      size      |-> size,
      address   |-> address,
      access    |-> access ]

\* MapEntry.__init__: a negative size with a non-negative end is replaced
\* by end - address.
MapEntry(section, module, entryType, name, address, size, end, access) ==
    [ section   |-> section,
      module    |-> module,
      entryType |-> entryType,
      name      |-> name,
      size      |-> IF size < 0 /\ end >= 0 THEN end - address ELSE size,
      address   |-> address,
      access    |-> access ]

\* MapEntry.start
Start(e) == e.address

\* MapEntry.end (getter)
End(e) == e.address + e.size

\* A setter that moves the start of the entry and keeps its size.
SetEndMovesStart(e, end) == [e EXCEPT !.address = end - e.size]

\* MapEntry.end (setter): returns the entry with its size recomputed.
SetEnd(e, end) == [e EXCEPT !.size = end - Start(e)]

\* An insertion at the head of the list.
PrependEntry(es, e) == <<e>> \o es

\* self.entries.append(newItem)
AppendEntry(es, e) == Append(es, e)

\* ------------------------------------------------------ regular expressions

\* The 36 characters [0-9a-z] a "hex" token is written with, by value.
CharNames ==
    << "0", "1", "2", "3", "4", "5", "6", "7", "8", "9", "a", "b",
       "c", "d", "e", "f", "g", "h", "i", "j", "k", "l", "m", "n",
       "o", "p", "q", "r", "s", "t", "u", "v", "w", "x", "y", "z" >>

\* The text of a token as far as a name or attribute group records it.
TokText(t) == IF t.k = "word" THEN t.s ELSE "0x"

NoMatch ==
    [ ok |-> FALSE, sectionName |-> "", address |-> H(<<>>),
      hasSize |-> FALSE, size |-> H(<<>>), name |-> "", attributes |-> "" ]

\* regex.match(line) of the region table:
\*   \s*(Name [^\s*]+)\s+(Origin [^\s]+)\s+(Length [^\s]+)\s+(Attributes [^\s]+)
\* Each group is one whole token (a group cannot stop inside a token, since
\* \s+ must follow it); the Name token may not contain '*'; tokens after the
\* fourth are ignored.  Origin and Length are any tokens at all.
RegionMatch(line) ==
    LET t == line.toks IN
    IF /\ Len(t) >= 4
       /\ ~(t[1].k = "word" /\ t[1].s \in StarWords)
    THEN [ NoMatch EXCEPT !.ok = TRUE, !.name = TokText(t[1]),
                          !.address = t[2], !.hasSize = TRUE, !.size = t[3],
                          !.attributes = TokText(t[4]) ]
    ELSE NoMatch

\* regex.match(line) of the symbol map:
\*   \s*(SectionName [._()a-zA-Z]*)\s*(Address 0x[0-9a-zA-Z]{8,})
\*   \s*(Size 0x[0-9a-zA-Z]+)?\s*(Name .+)
\* SectionName is the first token when that is a word of section characters
\* (any other leading word leaves the Address group nothing to start at).
\* Address is the next token and needs MinAddressDigits characters.  Name
\* needs one character at least, so when nothing follows the last numeric
\* token the regex engine backtracks and gives that token's last character
\* to Name; a Size of a single character cannot give one up and the optional
\* group is dropped instead, the token becoming the Name.
MapMatch(line) ==
    LET t      == line.toks
        hasSec == Len(t) >= 1 /\ t[1].k = "word" /\ t[1].s \in SectionWords
        ai     == IF hasSec THEN 2 ELSE 1
        sec    == IF hasSec THEN t[1].s ELSE ""
    IN
    IF ~(Len(t) >= ai /\ t[ai].k = "hex" /\ Len(t[ai].ds) >= MinAddressDigits)
    THEN NoMatch
    ELSE
    LET a == t[ai].ds
        n == Len(t) - ai
    IN
    IF n = 0
    THEN IF Len(a) > MinAddressDigits
         THEN [ NoMatch EXCEPT !.ok = TRUE, !.sectionName = sec,
                               !.address = H(SubSeq(a, 1, Len(a) - 1)),
                               !.name = CharNames[a[Len(a)] + 1] ]
         ELSE NoMatch
    ELSE
    LET r == t[ai + 1] IN
    IF r.k = "hex" /\ Len(r.ds) >= 1
    THEN IF n >= 2
         THEN [ NoMatch EXCEPT !.ok = TRUE, !.sectionName = sec,
                               !.address = H(a), !.hasSize = TRUE,
                               !.size = r, !.name = TokText(t[ai + 2]) ]
         ELSE IF Len(r.ds) >= 2
         THEN [ NoMatch EXCEPT !.ok = TRUE, !.sectionName = sec,
                               !.address = H(a), !.hasSize = TRUE,
                               !.size = H(SubSeq(r.ds, 1, Len(r.ds) - 1)),
                               !.name = CharNames[r.ds[Len(r.ds)] + 1] ]
         ELSE [ NoMatch EXCEPT !.ok = TRUE, !.sectionName = sec,
                               !.address = H(a), !.name = TokText(r) ]
    ELSE [ NoMatch EXCEPT !.ok = TRUE, !.sectionName = sec,
                          !.address = H(a), !.name = TokText(r) ]

\* An allow-list that also admits the debug section.
AllowedSectionsAndDebug ==
    { ".bss", ".tbss", "data", ".tdata", ".data1", ".rodata", ".txt",
      ".txt.memcpy", ".debug" }

\* The sections whose lines are read (the tuple of load()).
AllowedSections ==
    { ".bss", ".tbss", "data", ".tdata", ".data1", ".rodata", ".txt",
      ".txt.memcpy" }

\* line[0] == '.'
IsSectionHeader(line) ==
    /\ ~line.indent
    /\ Len(line.toks) >= 1
    /\ line.toks[1].k = "word"
    /\ line.toks[1].s \in DotWords

\* "not line": the empty string.
IsEmptyLine(line) == ~line.indent /\ line.toks = <<>>

\* ------------------------------------------------------------ line alphabets

Line(indent, toks) == [indent |-> indent, toks |-> toks]

\* An address token of MinAddressDigits characters with value v < 256.
Addr8(v) == H(<<0, 0, 0, 0, 0, 0, v \div HexBase, v % HexBase>>)

\* Lines of the region table:
\*   "FLASH 0x0 0xa xr", "RAM 0xa 0xa rw"   well-formed rows
\*   "*default* 0x0 0xff"                   a row the regex rejects
\*   "RAM 0xzz 0x10 rw"                     a row whose Origin is no number
RegionLines ==
    { Line(FALSE, <<W("FLASH"), H(<<0>>), H(<<10>>), W("xr")>>),
      Line(FALSE, <<W("RAM"), H(<<10>>), H(<<10>>), W("rw")>>),
      Line(FALSE, <<W("*default*"), H(<<0>>), H(<<15, 15>>)>>),
      Line(FALSE, <<W("RAM"), H(<<35, 35>>), H(<<1, 0>>), W("rw")>>) }

\* Lines of the symbol map:
\*   ""                                  empty line
\*   ".bss 0x00000000 0x1e"              header of an allowed section
\*   ".debug 0x00000000 0x1e"            header of a section not allowed
\*   " .bss 0x00000000 0x1e a.o"         module row with a size
\*   " .bss 0x0000000a b.o"              module row without a size
\*   " 0x00000000 A", " 0x0000000a B", " 0x00000014 C"   symbol rows
\*   " *fill* 0x00000000 0x2"            a row the regex rejects
\*   " 0x0000000z D"                     a symbol row whose Address is no number
MapLines ==
    { Line(FALSE, <<>>),
      Line(FALSE, <<W(".bss"), Addr8(0), H(<<1, 14>>)>>),
      Line(FALSE, <<W(".debug"), Addr8(0), H(<<1, 14>>)>>),
      Line(TRUE, <<W(".bss"), Addr8(0), H(<<1, 14>>), W("a.o")>>),
      Line(TRUE, <<W(".bss"), Addr8(10), W("b.o")>>),
      Line(TRUE, <<Addr8(0), W("A")>>),
      Line(TRUE, <<Addr8(10), W("B")>>),
      Line(TRUE, <<Addr8(20), W("C")>>),
      Line(TRUE, <<W("*fill*"), Addr8(0), H(<<2>>)>>),
      Line(TRUE, <<H(<<0, 0, 0, 0, 0, 0, 0, 35>>), W("D")>>) }

\* A region row of length zero: "NULL 0x0 0x0 rw".
DegenerateRegionLines ==
    { Line(FALSE, <<W("NULL"), H(<<0>>), H(<<0>>), W("rw")>>) }

\* A symbol row of another build of the program, in which the symbol A has
\* moved: " 0x0000000a A".
MovedMapLines ==
    { Line(TRUE, <<Addr8(10), W("A")>>) }

\* A module row without a size at address zero: " .bss 0x00000000 c.o".
UnsizedMapLines ==
    { Line(TRUE, <<W(".bss"), Addr8(0), W("c.o")>>) }

\* The lines a report text is made of: the alphabets above, with the rows a
\* report is marked to hold in addition (r.extra).
RegionLinesOf(r) ==
    RegionLines \cup
        (IF "degenerate" \in r.extra THEN DegenerateRegionLines ELSE {})

MapLinesOf(r) ==
    MapLines \cup (IF "moved" \in r.extra THEN MovedMapLines ELSE {})
             \cup (IF "unsized" \in r.extra THEN UnsizedMapLines ELSE {})

\* ------------------------------------------------------------------- state

\* getEntriesByType: the handles of the entries of one type, in entry order.
EntriesByType(es, t) == {i \in 1..Len(es) : es[i].entryType = t}

\* The handle of the entry before the one appended last.
HandleOffByOne(es) == Len(es) - 1

\* The handle of the entry appended last (newItem after entries.append).
Handle(es) == Len(es)

\* A backfill up to the successor's start itself.
BackfillEndNoGap(newItem) == Start(newItem)

\* The end a Global is given when its successor newItem is parsed.
BackfillEnd(newItem) == Start(newItem) - 1

NoResult ==
    [op |-> "none", arg |-> 0, name |-> "", ret |-> None, raised |-> FALSE,
     out |-> <<>>]

\* No second map has been constructed.
NoMap == [loaded |-> FALSE, entries |-> <<>>]

\* The report texts: each has or lacks the anchor phrases "Memory
\* Configuration" (mc), "Attributes" (attr) and "Linker script and memory
\* map" (ls), and holds at most `rows` rows that yield a Module or Global and
\* at most `regions` rows that yield a Memory entry.
Reports(rows) ==
    [mc : BOOLEAN, attr : BOOLEAN, ls : BOOLEAN, rows : {rows},
     regions : {MaxRegions}, extra : {{}}]

\* MemoryMap.__init__ up to the call of load(): an empty entry list.
Init ==
    /\ report \in Reports(MaxMapEntries)
    /\ pc = "regions"
    /\ err = "none"
    /\ entries = <<>>
    /\ currentModule = None
    /\ lastItem = None
    /\ okSection = FALSE
    /\ result = NoResult
    /\ other = NoMap

\* load() raises: the constructor does not return and no map exists.
Raise(e) ==
    /\ pc' = "failed"
    /\ err' = e
    /\ UNCHANGED <<report, entries, currentModule, lastItem, okSection, result,
                   other>>

\* The body of the loop over the region table for one line.
OnRegionLine(line) ==
         LET m == RegionMatch(line) IN
         IF ~m.ok
         THEN UNCHANGED vars
         ELSE IF ~IsHexNumber(m.address) \/ ~IsHexNumber(m.size)
         THEN Raise("ValueError")
         ELSE /\ Cardinality(EntriesByType(entries, "Memory")) < report.regions
              /\ entries' = AppendEntry(entries,
                     MapEntry("", None, "Memory", m.name, HexValue(m.address),
                              HexValue(m.size), Unknown, m.attributes))
              /\ UNCHANGED <<report, pc, err, currentModule, lastItem,
                             okSection, result, other>>

\* One iteration of the loop over the region table.
ParseRegionLine ==
    /\ pc = "regions"
    /\ \E line \in RegionLinesOf(report) : OnRegionLine(line)

\* The region table is exhausted; sections[1] is taken, which exists only
\* if the text held "Linker script and memory map".
EndRegions ==
    /\ pc = "regions"
    /\ IF report.ls
       THEN /\ pc' = "map"
            /\ UNCHANGED <<report, err, entries, currentModule, lastItem,
                           okSection, result, other>>
       ELSE Raise("IndexError")

\* A loop that skips no line.
SkipsNoLine(ok) == FALSE

\* "if not okSection: continue"
SkipsLine(ok) == ~ok

\* A module row without a size token taken as a module of no bytes.
ModuleSizeOrZero(m) == IF m.hasSize THEN HexValue(m.size) ELSE 0

\* The size of a new Module: -1 if the Size group is absent or empty.
ModuleSize(m) == IF m.hasSize THEN HexValue(m.size) ELSE Unknown

\* A module row that leaves the last Global in place.
LastItemKept(last) == last

\* "lastItem=None" after a Module is appended: no Global of the new module
\* has been read.
LastItemAfterModule(last) == None

\* The body of the loop over the symbol map for one line.
OnMapLine(line) ==
         IF IsEmptyLine(line)
         THEN UNCHANGED vars
         ELSE IF IsSectionHeader(line)
         THEN /\ currentModule' = None
              /\ lastItem' = None
              /\ okSection' = (line.toks[1].s \in AllowedSections)
              /\ UNCHANGED <<report, pc, err, entries, result, other>>
         ELSE IF SkipsLine(okSection)
         THEN UNCHANGED vars
         ELSE
         LET m == MapMatch(line) IN
         IF ~m.ok
         THEN UNCHANGED vars
         ELSE IF m.sectionName # ""
         THEN IF (m.hasSize /\ ~IsHexNumber(m.size)) \/ ~IsHexNumber(m.address)
              THEN Raise("ValueError")
              ELSE /\ Cardinality(EntriesByType(entries, "Module")
                        \cup EntriesByType(entries, "Global")) < report.rows
                   /\ entries' = AppendEntry(entries,
                          MapEntry(m.sectionName, None, "Module", m.name,
                                   HexValue(m.address), ModuleSize(m),
                                   Unknown, "rwx"))
                   /\ currentModule' = Handle(entries')
                   /\ lastItem' = LastItemAfterModule(lastItem)
                   /\ UNCHANGED <<report, pc, err, okSection, result, other>>
         ELSE IF ~IsHexNumber(m.address)
         THEN Raise("ValueError")
         ELSE
         LET end     == IF currentModule # None
                        THEN End(entries[currentModule]) ELSE Unknown
             access  == IF currentModule # None
                        THEN entries[currentModule].access ELSE "rwx"
             newItem == MapEntry("", currentModule, "Global", m.name,
                                 HexValue(m.address), Unknown, end, access)
             es      == AppendEntry(entries, newItem)
         IN
         /\ Cardinality(EntriesByType(entries, "Module")
              \cup EntriesByType(entries, "Global")) < report.rows
         /\ entries' = IF lastItem # None
                       THEN [es EXCEPT ![lastItem] =
                                SetEnd(es[lastItem], BackfillEnd(newItem))]
                       ELSE es
         /\ lastItem' = Handle(es)
         /\ UNCHANGED <<report, pc, err, currentModule, okSection, result, other>>

\* One iteration of the loop over the symbol map.
ParseMapLine ==
    /\ pc = "map"
    /\ \E line \in MapLinesOf(report) : OnMapLine(line)

\* The symbol map is exhausted: load() and the constructor return.
EndMap ==
    /\ pc = "map"
    /\ pc' = "done"
    /\ UNCHANGED <<report, err, entries, currentModule, lastItem, okSection,
                   result, other>>

\* ----------------------------------------------------------------- queries

\* The first handle of a non-empty set of handles (the loops return at the
\* first entry that passes the test), None for the empty set.
First(hs) == IF hs = {} THEN None ELSE CHOOSE i \in hs : \A j \in hs : i <= j

\* The test of getMemoryAt and getGlobalAt on one entry.
Contains(g, location) == location >= Start(g) /\ location <= End(g)

\* A getMemoryAt without the containment test: the first region there is.
GetMemoryFirst(es, location) == First(EntriesByType(es, "Memory"))

\* getMemoryAt(location): the handle returned, None if the loop falls through.
GetMemoryAt(es, location) ==
    First({i \in EntriesByType(es, "Memory") : Contains(es[i], location)})

\* A getGlobalAt that does what its second name says: the Global that starts
\* at the location.
GetGlobalStartingExactlyAt(es, location) ==
    First({i \in EntriesByType(es, "Global") : Start(es[i]) = location})

\* getGlobalAt(location), also bound to the name getGlobalStartingAt.
GetGlobalAt(es, location) ==
    First({i \in EntriesByType(es, "Global") : Contains(es[i], location)})

\* getGlobalEndingAt(location)
GetGlobalEndingAt(es, location) ==
    First({i \in EntriesByType(es, "Global") : End(es[i]) = location})

\* The entries whose end a lookup reads before it returns ret for the
\* location: the loop stops at the entry it returns, and the "and" of the
\* containment test reads g.end only if location >= g.start.
EndsRead(es, t, needsStart, location, ret) ==
    {i \in EntriesByType(es, t) :
        /\ ret = None \/ i <= ret
        /\ needsStart => location >= Start(es[i])}

\* Compiled patterns a caller may pass to getGlobal, and name.match(g.name):
\* "[AB]" accepts the names A and B, "Z.*" accepts no name of the alphabet.
Patterns == {"[AB]", "Z.*"}

PatternMatch(p, name) == p = "[AB]" /\ name \in {"A", "B"}

\* A getGlobal that searches the entries of every type.
GetGlobalOfAnyType(es, isStr, name) ==
    IF isStr
    THEN First({i \in 1..Len(es) : es[i].name = name})
    ELSE First({i \in 1..Len(es) : PatternMatch(name, es[i].name)})

\* getGlobal(name): the handle found by the loop of the string branch or of
\* the pattern branch; None stands for reaching the raise statement.
GetGlobal(es, isStr, name) ==
    IF isStr
    THEN First({i \in EntriesByType(es, "Global") : es[i].name = name})
    ELSE First({i \in EntriesByType(es, "Global") : PatternMatch(name, es[i].name)})

\* The loop of getAdjacentGlobals: n more rounds from the range start..end,
\* ret the handles appended so far.  getGlobalStartingAt is getGlobalAt.
RECURSIVE AdjacentWalk(_, _, _, _, _)
AdjacentWalk(es, start, end, n, ret) ==
    IF n = 0
    THEN ret
    ELSE LET s      == GetGlobalEndingAt(es, start)
             ret1   == IF s # None THEN Append(ret, s) ELSE ret
             start1 == IF s # None THEN Start(es[s]) ELSE start
             e      == GetGlobalAt(es, end)
             ret2   == IF e # None THEN Append(ret1, e) ELSE ret1
             end1   == IF e # None THEN End(es[e]) ELSE end
         IN AdjacentWalk(es, start1, end1, n - 1, ret2)

\* getAdjacentGlobals(globalName, distance) for the Global with handle g.
GetAdjacentGlobals(es, g, distance) ==
    AdjacentWalk(es, Start(es[g]), End(es[g]), distance, <<>>)

\* Arguments the callers pass.
QueryAddresses == {9, 10, 40}

QueryNames == {"A", "B", "Z", "FLASH"}

QueryDistances == {1, 2}

Returned(op, arg, name, h) ==
    /\ result' = [op |-> op, arg |-> arg, name |-> name, ret |-> h,
                  raised |-> FALSE, out |-> <<>>]
    /\ UNCHANGED <<report, pc, err, entries, currentModule, lastItem,
                   okSection, other>>

Raised(op, arg, name) ==
    /\ result' = [op |-> op, arg |-> arg, name |-> name, ret |-> None,
                  raised |-> TRUE, out |-> <<>>]
    /\ UNCHANGED <<report, pc, err, entries, currentModule, lastItem,
                   okSection, other>>

\* The call returns the list (or other value) out.
ReturnedValue(op, arg, name, out) ==
    /\ result' = [op |-> op, arg |-> arg, name |-> name, ret |-> None,
                  raised |-> FALSE, out |-> out]
    /\ UNCHANGED <<report, pc, err, entries, currentModule, lastItem,
                   okSection, other>>

CallGetMemoryAt ==
    /\ pc = "done"
    /\ result = NoResult
    /\ other = NoMap
    /\ \E a \in QueryAddresses :
         Returned("getMemoryAt", a, "", GetMemoryAt(entries, a))

CallGetGlobalAt ==
    /\ pc = "done"
    /\ result = NoResult
    /\ other = NoMap
    /\ \E a \in QueryAddresses :
         Returned("getGlobalAt", a, "", GetGlobalAt(entries, a))

CallGetGlobalEndingAt ==
    /\ pc = "done"
    /\ result = NoResult
    /\ other = NoMap
    /\ \E a \in QueryAddresses :
         Returned("getGlobalEndingAt", a, "", GetGlobalEndingAt(entries, a))

\* A getGlobal that falls through to "return None" like its siblings.
CallGetGlobalSilent ==
    /\ pc = "done"
    /\ result = NoResult
    /\ other = NoMap
    /\ \E isStr \in BOOLEAN :
         \E n \in (IF isStr THEN QueryNames ELSE Patterns) :
           Returned(IF isStr THEN "getGlobal" ELSE "getGlobal(pattern)", 0, n,
                    GetGlobal(entries, isStr, n))

CallGetGlobal ==
    /\ pc = "done"
    /\ result = NoResult
    /\ other = NoMap
    /\ \E isStr \in BOOLEAN :
         \E n \in (IF isStr THEN QueryNames ELSE Patterns) :
           LET h == GetGlobal(entries, isStr, n)
               op == IF isStr THEN "getGlobal" ELSE "getGlobal(pattern)"
           IN IF h # None
              THEN Returned(op, 0, n, h)
              ELSE Raised(op, 0, n)

\* getAdjacentGlobals: getGlobal raises if no Global has the name.
CallGetAdjacentGlobals ==
    /\ pc = "done"
    /\ result = NoResult
    /\ \E n \in QueryNames, d \in QueryDistances :
         LET g == GetGlobal(entries, TRUE, n) IN
         IF g = None
         THEN Raised("getAdjacentGlobals", d, n)
         ELSE ReturnedValue("getAdjacentGlobals", d, n,
                            GetAdjacentGlobals(entries, g, d))

\* MapEntry.memory: the region at the entry's start, None where the property
\* raises IndexError.
MemoryOf(es, i) == GetMemoryAt(es, Start(es[i]))

\* A quotient num / den of two integers, as Python's true division gives it.
Ratio(num, den) == <<num, den>>

\* A sizePercent that looks the region up before it tests the size.
SizePercentRegionFirst(es, i) ==
    IF MemoryOf(es, i) = None
    THEN [raised |-> TRUE, value |-> Ratio(0, 1)]
    ELSE IF es[i].size <= 0
    THEN [raised |-> FALSE, value |-> Ratio(0, 1)]
    ELSE IF es[MemoryOf(es, i)].size <= 0
    THEN [raised |-> FALSE, value |-> Ratio(1, 1)]
    ELSE [raised |-> FALSE, value |-> Ratio(es[i].size, es[MemoryOf(es, i)].size)]

\* MapEntry.sizePercent of the entry with handle i: the value returned, or
\* raised where self.memory raises IndexError.
SizePercent(es, i) ==
    IF es[i].size <= 0
    THEN [raised |-> FALSE, value |-> Ratio(0, 1)]
    ELSE IF MemoryOf(es, i) = None
    THEN [raised |-> TRUE, value |-> Ratio(0, 1)]
    ELSE IF es[MemoryOf(es, i)].size <= 0
    THEN [raised |-> FALSE, value |-> Ratio(1, 1)]
    ELSE [raised |-> FALSE, value |-> Ratio(es[i].size, es[MemoryOf(es, i)].size)]

CallSizePercent ==
    /\ pc = "done"
    /\ result = NoResult
    /\ \E i \in 1..Len(entries) :
         LET p == SizePercent(entries, i) IN
         IF p.raised
         THEN Raised("sizePercent", i, "")
         ELSE ReturnedValue("sizePercent", i, "", p.value)

\* The handles of the entries of one type as a list, in entry order (the
\* order in which the generator getEntriesByType yields them).
ListByType(es, t) ==
    SelectSeq([i \in 1..Len(es) |-> i], LAMBDA i : es[i].entryType = t)

RECURSIVE Concat(_)
Concat(seqs) ==
    IF seqs = <<>> THEN <<>> ELSE Head(seqs) \o Concat(Tail(seqs))

\* One line of the text diagnose() returns, kept as the kind of the line and
\* the entries its text is formatted from.
Finding(kind, g, g2) == [kind |-> kind, g |-> g, g2 |-> g2]

\* Range checks that leave out the module.
MemoryBoundsFindings(es, g) ==
    LET memory == es[MemoryOf(es, g)]
    IN  (IF End(es[g]) > End(memory)
         THEN <<Finding("past end of memory", g, None)>> ELSE <<>>)
     \o (IF Start(es[g]) < Start(memory)
         THEN <<Finding("past start of memory", g, None)>> ELSE <<>>)

\* The four range checks of diagnose() on the Global g.
BoundsFindings(es, g) ==
    LET memory == es[MemoryOf(es, g)]
        module == es[g].module
    IN  (IF End(es[g]) > End(memory)
         THEN <<Finding("past end of memory", g, None)>> ELSE <<>>)
     \o (IF Start(es[g]) < Start(memory)
         THEN <<Finding("past start of memory", g, None)>> ELSE <<>>)
     \o (IF module # None /\ End(es[g]) > End(es[module])
         THEN <<Finding("past end of module", g, None)>> ELSE <<>>)
     \o (IF module # None /\ Start(es[g]) < Start(es[module])
         THEN <<Finding("past start of module", g, None)>> ELSE <<>>)

\* A redefinition test that leaves out "is not None".
RedefinedOrUnowned(es, g, g2) == es[g].module # es[g2].module

\* The test for multiple instances of one symbol; != on two MapEntry objects
\* compares their identity.
Redefined(es, g, g2) ==
    /\ es[g].module # None
    /\ es[g2].module # None
    /\ es[g].module # es[g2].module

\* A test that looks only at where g ends: strictly inside g2.
OverlapEndInside(g, g2) == End(g) > Start(g2) /\ End(g) < End(g2)

\* The test for overlapping symbols.
Overlap(g, g2) ==
    \/ Start(g) >= Start(g2) /\ Start(g) < End(g2)
    \/ End(g) > Start(g2) /\ End(g) <= End(g2)

\* The body of the inner loop of diagnose() for the Globals g and g2.
PairFindings(es, g, g2) ==
    IF es[g].name = es[g2].name
    THEN IF Redefined(es, g, g2)
         THEN <<Finding("redefined", g, g2)>> ELSE <<>>
    ELSE IF Overlap(es[g], es[g2])
         THEN <<Finding("overlap", g, g2)>> ELSE <<>>

\* diagnose(): the lines after the heading, in the order they are appended.
Diagnose(es) ==
    LET gs == ListByType(es, "Global") IN
    Concat([k \in 1..Len(gs) |->
              BoundsFindings(es, gs[k])
                  \o Concat([j \in 1..Len(gs) |->
                               PairFindings(es, gs[k], gs[j])])])

\* diagnose() raises at the first Global whose start lies in no region.
CallDiagnose ==
    /\ pc = "done"
    /\ result = NoResult
    /\ IF \E g \in EntriesByType(entries, "Global") :
              MemoryOf(entries, g) = None
       THEN Raised("diagnose", 0, "")
       ELSE ReturnedValue("diagnose", 0, "", Diagnose(entries))

\* round(x * 100.0, 1) of a quotient x, in tenths: the nearest tenth, the
\* even one of two equally near.
PercentTenths(x) ==
    LET n == 1000 * x[1]
        q == n \div x[2]
        r == n % x[2]
    IN  IF 2 * r < x[2] THEN q
        ELSE IF 2 * r > x[2] THEN q + 1
        ELSE IF q % 2 = 0 THEN q ELSE q + 1

\* The running totals of statsStr over the modules ms, from the totals
\* reached so far.
RECURSIVE StatsTotal(_, _, _, _)
StatsTotal(es, ms, totalSize, totalPercent) ==
    IF ms = <<>>
    THEN [name |-> "TOTAL", size |-> totalSize, percent |-> totalPercent]
    ELSE StatsTotal(es, Tail(ms), totalSize + es[Head(ms)].size,
             totalPercent + PercentTenths(SizePercent(es, Head(ms)).value))

\* statsStr: one line for each module, then the line of the totals; a line
\* is kept as the values its text is formatted from.
StatsStr(es) ==
    LET ms == ListByType(es, "Module") IN
    [k \in 1..Len(ms) |->
        [name |-> es[ms[k]].name, size |-> es[ms[k]].size,
         percent |-> PercentTenths(SizePercent(es, ms[k]).value)]]
    \o <<StatsTotal(es, ms, 0, 0)>>

\* statsStr raises where sizePercent of a module does.
CallStatsStr ==
    /\ pc = "done"
    /\ result = NoResult
    /\ IF \E m \in EntriesByType(entries, "Module") :
              SizePercent(entries, m).raised
       THEN Raised("statsStr", 0, "")
       ELSE ReturnedValue("statsStr", 0, "", StatsStr(entries))

\* MemoryMap(filename) is called for a second report: the map constructed
\* first is kept by the caller as `other`, and the new map is built from an
\* empty entry list.  The second report holds at most the rows that the
\* first has left of the two budgets.
LoadOther ==
    /\ pc = "done"
    /\ result = NoResult
    /\ ~other.loaded
    /\ other' = [loaded |-> TRUE, entries |-> entries]
    /\ report' = [report EXCEPT
           !.rows = @ - Cardinality(EntriesByType(entries, "Module")
                            \cup EntriesByType(entries, "Global")),
           !.regions = @ - Cardinality(EntriesByType(entries, "Memory"))]
    /\ pc' = "regions"
    /\ entries' = <<>>
    /\ currentModule' = None
    /\ lastItem' = None
    /\ okSection' = FALSE
    /\ UNCHANGED <<err, result>>

\* One tuple differences() yields: g1 is a handle of self's entry list, g2
\* a handle of other's.
Difference(kind, g1, g2) == [kind |-> kind, g1 |-> g1, g2 |-> g2]

\* The names of the Globals of a map.
GlobalNames(es) == {es[i].name : i \in EntriesByType(es, "Global")}

\* A dictionary that keeps the first Global of each name.
FirstNamed(es, name) ==
    CHOOSE i \in EntriesByType(es, "Global") :
        /\ es[i].name = name
        /\ \A j \in EntriesByType(es, "Global") : es[j].name = name => i <= j

\* globals1[name] after the first loop: the last Global of that name.
LastNamed(es, name) ==
    CHOOSE i \in EntriesByType(es, "Global") :
        /\ es[i].name = name
        /\ \A j \in EntriesByType(es, "Global") : es[j].name = name => j <= i

\* The last loop: the values of globals1 in the order of its keys, which is
\* the order in which the names were first inserted, without the deleted.
OnlyLeft(es, deleted) ==
    LET firsts == SelectSeq(ListByType(es, "Global"),
                      LAMBDA i : /\ es[i].name \notin deleted
                                 /\ \A j \in 1..(i - 1) :
                                        es[j].entryType = "Global"
                                            => es[j].name # es[i].name)
    IN [k \in 1..Len(firsts) |->
           Difference("Only left", LastNamed(es, es[firsts[k]].name), None)]

\* The loop over other.globals from the Globals gs2 on, deleted the names
\* removed from globals1 so far; then the last loop.
RECURSIVE DifferencesFrom(_, _, _, _)
DifferencesFrom(es1, es2, gs2, deleted) ==
    IF gs2 = <<>>
    THEN OnlyLeft(es1, deleted)
    ELSE LET g2   == Head(gs2)
             name == es2[g2].name
         IN
         IF name \notin (GlobalNames(es1) \ deleted)
         THEN <<Difference("Only right", None, g2)>>
                  \o DifferencesFrom(es1, es2, Tail(gs2), deleted)
         ELSE LET g1 == LastNamed(es1, name) IN
              (IF es1[g1].address # es2[g2].address
               THEN <<Difference("Location different", g1, g2)>> ELSE <<>>)
           \o (IF es1[g1].size # es2[g2].size
               THEN <<Difference("Size different", g1, g2)>> ELSE <<>>)
           \o DifferencesFrom(es1, es2, Tail(gs2), deleted \cup {name})

\* self.differences(other), the generator run to its end.
Differences(es1, es2) ==
    DifferencesFrom(es1, es2, ListByType(es2, "Global"), {})

\* A differences() that marks a name as consumed by deleting self's Globals
\* of that name from the entry list.
CallDifferencesDeleting ==
    /\ pc = "done"
    /\ result = NoResult
    /\ other.loaded
    /\ result' = [op |-> "differences", arg |-> 0, name |-> "", ret |-> None,
                  raised |-> FALSE,
                  out |-> Differences(entries, other.entries)]
    /\ entries' = SelectSeq(entries,
                      LAMBDA e : ~(/\ e.entryType = "Global"
                                   /\ e.name \in GlobalNames(other.entries)))
    /\ UNCHANGED <<report, pc, err, currentModule, lastItem, okSection, other>>

CallDifferences ==
    /\ pc = "done"
    /\ result = NoResult
    /\ other.loaded
    /\ ReturnedValue("differences", 0, "", Differences(entries, other.entries))

\* The caller takes the value (or catches the exception) of the call.
Return ==
    /\ pc = "done"
    /\ result # NoResult
    /\ result' = NoResult
    /\ UNCHANGED <<report, pc, err, entries, currentModule, lastItem,
                   okSection, other>>

\* ------------------------------------------------------------ specification

\* MemoryMap(filename): the construction, one line of the report at a time.
Load ==
    \/ ParseRegionLine
    \/ EndRegions
    \/ ParseMapLine
    \/ EndMap

\* The calls made on a constructed map.
Query ==
    \/ CallGetMemoryAt
    \/ CallGetGlobalAt
    \/ CallGetGlobalEndingAt
    \/ CallGetGlobal
    \/ CallGetAdjacentGlobals
    \/ CallSizePercent
    \/ Return

\* The diagnostics run on a constructed map.
Diagnostics ==
    \/ CallDiagnose
    \/ Return

\* The statistics of a constructed map.
Statistics ==
    \/ CallStatsStr
    \/ Return

\* The comparison of a map with one constructed before it.
Compare ==
    \/ LoadOther
    \/ CallDifferences
    \/ Return

Next == Load \/ Query \/ Diagnostics \/ Statistics \/ Compare

\* The state before load() for a report that holds all three anchor phrases
\* and at most `rows` rows that yield a Module or Global.
InitAnchored(rows) ==
    /\ report = [mc |-> TRUE, attr |-> TRUE, ls |-> TRUE, rows |-> rows,
                 regions |-> MaxRegions, extra |-> {}]
    /\ pc = "regions"
    /\ err = "none"
    /\ entries = <<>>
    /\ currentModule = None
    /\ lastItem = None
    /\ okSection = FALSE
    /\ result = NoResult
    /\ other = NoMap

InitParse == InitAnchored(MaxMapEntries)

\* The same for the maps that are queried; their region table may hold the
\* row of length zero.
InitQuery ==
    /\ report = [mc |-> TRUE, attr |-> TRUE, ls |-> TRUE,
                 rows |-> MaxQueryEntries, regions |-> MaxRegions,
                 extra |-> {"degenerate"}]
    /\ pc = "regions"
    /\ err = "none"
    /\ entries = <<>>
    /\ currentModule = None
    /\ lastItem = None
    /\ okSection = FALSE
    /\ result = NoResult
    /\ other = NoMap

\* Construction and use of a map, from any report text.
Spec == Init /\ [][Next]_vars

\* The state before the first of two reports is read: the reports hold all
\* their anchors, no region row and, together, at most MaxDiffEntries rows
\* that yield a Module or Global; the symbol A may have moved between them.
InitDiff ==
    /\ report = [mc |-> TRUE, attr |-> TRUE, ls |-> TRUE,
                 rows |-> MaxDiffEntries, regions |-> 0, extra |-> {"moved"}]
    /\ pc = "regions"
    /\ err = "none"
    /\ entries = <<>>
    /\ currentModule = None
    /\ lastItem = None
    /\ okSection = FALSE
    /\ result = NoResult
    /\ other = NoMap

\* The state before the first of two reports is read: the reports hold all
\* their anchors and, together, at most MaxRegions rows that yield a Memory
\* entry and at most MaxUseEntries rows that yield a Module or Global.
InitUse == InitAnchored(MaxUseEntries)

\* The state before load() for a report with all its anchors that may hold
\* the module row without a size at address zero.
InitModules ==
    /\ report = [mc |-> TRUE, attr |-> TRUE, ls |-> TRUE,
                 rows |-> MaxQueryEntries, regions |-> MaxRegions,
                 extra |-> {"unsized"}]
    /\ pc = "regions"
    /\ err = "none"
    /\ entries = <<>>
    /\ currentModule = None
    /\ lastItem = None
    /\ okSection = FALSE
    /\ result = NoResult
    /\ other = NoMap

\* Construction alone, from any report text.
SpecLoad == Init /\ [][Load]_vars

\* Construction alone, from a report with all its anchors.
SpecParse == InitParse /\ [][Load]_vars

\* Construction alone, from a report that may hold a module of unknown size
\* at address zero.
SpecModules == InitModules /\ [][Load]_vars

\* Construction from a report with all its anchors, then use of the map.
SpecQuery == InitQuery /\ [][Load \/ Query]_vars

\* Construction of one map or of two, and every use of them.
SpecUse == InitUse /\ [][Next]_vars

\* Construction of two maps, one after the other, and their comparison.
SpecDiff == InitDiff /\ [][Load \/ Compare]_vars

\* Construction from a report with all its anchors, then diagnosis of the map.
SpecDiagnose == InitParse /\ [][Load \/ Diagnostics]_vars

\* ================================================================== claims

\* Helpers of the claims.
IsType(i, t) == entries[i].entryType = t

Handles == 1..Len(entries)

AllAnchors == report.mc /\ report.attr /\ report.ls

\* ----------------------------------------------------------------------- C1
\* C1: for a report that holds the anchors, no report line aborts the
\* construction: every line yields an entry or is skipped, also a line whose
\* origin, length or address is not valid hexadecimal.
C1_NoLineAborts == AllAnchors => pc # "failed"

\* ----------------------------------------------------------------------- C2
\* C2: a report without the marker "Memory Configuration" yields no map and
\* no Memory, Module or Global entry (construction fails).
C2_MissingMarkerFails == ~report.mc => pc # "done"

\* ----------------------------------------------------------------------- C3
\* C3: a report with "Memory Configuration" but without "Linker script and
\* memory map" raises no error for the missing second marker: its symbol map
\* counts as empty and construction goes on to completion.
C3_MissingMapIsEmpty == (report.mc /\ ~report.ls) => err # "IndexError"

\* ----------------------------------------------------------------------- C4
\* C4: entry order is the order of the report lines.  Lines are consumed in
\* text order, one per step, so this says: a step adds at most one entry, adds
\* it at the end, leaves every earlier entry at its position, and in the
\* resulting list every Memory entry precedes every Module and Global entry.
SameEntry(e, f) ==
    /\ e.entryType = f.entryType
    /\ e.name = f.name
    /\ e.address = f.address

MemoryFirst(es) ==
    \A i, j \in 1..Len(es) :
        (i < j /\ es[j].entryType = "Memory") => es[i].entryType = "Memory"

C4_OrderPreserved ==
    [][ /\ Len(entries') \in {Len(entries), Len(entries) + 1}
        /\ \A i \in Handles : SameEntry(entries'[i], entries[i])
        /\ MemoryFirst(entries') ]_vars

C4_Witness ==
    /\ pc = "done"
    /\ Len(entries) >= 4
    /\ IsType(1, "Memory") /\ IsType(2, "Module")
    /\ IsType(3, "Global") /\ IsType(4, "Global")
    /\ entries[3].name # entries[4].name

\* ----------------------------------------------------------------------- C5
\* C5: the module back-reference of every Global, if set, is the handle of a
\* Module entry of the same list that was appended before the Global.
C5_ModuleRefPresent ==
    \A i \in Handles :
        (IsType(i, "Global") /\ entries[i].module # None) =>
            /\ entries[i].module \in 1..(i - 1)
            /\ IsType(entries[i].module, "Module")

C5_Witness ==
    /\ pc = "done"
    /\ \E i, j \in Handles :
         /\ IsType(i, "Global") /\ IsType(j, "Global") /\ i # j
         /\ entries[i].module # None
         /\ entries[j].module # None
         /\ entries[i].module # entries[j].module

\* ----------------------------------------------------------------------- C6
\* C6: when a Global line is parsed while lastItem is set, the end of the
\* entry lastItem refers to becomes the new Global's start minus 1 and
\* lastItem then refers to the new Global; hence in every list two adjacent
\* Globals of one module satisfy end = successor's start - 1, and the Globals
\* A@0, B@10, C@20 of one module end at 9 and 19.
GlobalAppended ==
    /\ Len(entries') = Len(entries) + 1
    /\ entries'[Len(entries')].entryType = "Global"

BackfillStep ==
    (GlobalAppended /\ lastItem # None) =>
        /\ End(entries'[lastItem]) = Start(entries'[Len(entries')]) - 1
        /\ lastItem' = Len(entries')

BackfilledChain ==
    \A i \in Handles :
        ( /\ i + 1 \in Handles
          /\ IsType(i, "Global") /\ IsType(i + 1, "Global")
          /\ entries[i].module # None
          /\ entries[i].module = entries[i + 1].module ) =>
            End(entries[i]) = Start(entries[i + 1]) - 1

C6_Backfill == [][BackfillStep]_vars /\ []BackfilledChain

C6_Witness ==
    /\ pc = "done"
    /\ \E i \in Handles :
         /\ i + 2 \in Handles
         /\ \A k \in {i, i + 1, i + 2} :
              IsType(k, "Global") /\ entries[k].module = entries[i].module
         /\ entries[i].module # None
         /\ entries[i].name = "A" /\ Start(entries[i]) = 0
         /\ entries[i + 1].name = "B" /\ Start(entries[i + 1]) = 10
         /\ entries[i + 2].name = "C" /\ Start(entries[i + 2]) = 20
         /\ End(entries[i]) = 9
         /\ End(entries[i + 1]) = 19

\* ----------------------------------------------------------------------- C7
\* C7: every entry whose size is known (is not the "unknown" sentinel) has
\* end >= start, Globals with a backfilled or inherited end included.
SizeKnown(e) == e.size # Unknown

C7_EndNotBeforeStart ==
    \A i \in Handles : SizeKnown(entries[i]) => End(entries[i]) >= Start(entries[i])

\* ----------------------------------------------------------------------- C8
\* C8: the entry list is append-only while parsing: no step removes or moves
\* an entry, and the only change a step makes to an entry already in the list
\* is to the size (hence end) of the Global that lastItem refers to.
FrameOfEntry(i) ==
    /\ entries'[i].entryType = entries[i].entryType
    /\ entries'[i].name = entries[i].name
    /\ entries'[i].address = entries[i].address
    /\ entries'[i].section = entries[i].section
    /\ entries'[i].module = entries[i].module
    /\ entries'[i].access = entries[i].access
    /\ entries'[i].size # entries[i].size =>
           (i = lastItem /\ IsType(i, "Global"))

C8_AppendOnly ==
    [][ /\ Len(entries') >= Len(entries)
        /\ \A i \in Handles : FrameOfEntry(i) ]_vars

C8_Witness ==
    /\ pc = "done"
    /\ \E i \in Handles :
         /\ IsType(i, "Global")
         /\ entries[i].module = None
         /\ SizeKnown(entries[i])
    /\ \E j \in Handles : IsType(j, "Module") /\ SizeKnown(entries[j])
    /\ \E k \in Handles : IsType(k, "Memory")

\* ----------------------------------------------------------------------- C9
\* C9: the entry getMemoryAt(address) returns is a Memory entry whose
\* half-open range [start, end) contains address; an address equal to the
\* region's end is not inside it.
C9_HalfOpenRegion ==
    (result.op = "getMemoryAt" /\ result.ret # None) =>
        /\ IsType(result.ret, "Memory")
        /\ Start(entries[result.ret]) <= result.arg
        /\ result.arg < End(entries[result.ret])

\* ---------------------------------------------------------------------- C10
\* C10 (as stated): each of getMemoryAt, getGlobal, getGlobalAt and
\* getGlobalEndingAt raises when no entry matches; none hands the caller a
\* null result.
Lookups == {"getMemoryAt", "getGlobal", "getGlobal(pattern)", "getGlobalAt",
            "getGlobalEndingAt"}

NoMatchFor(r) ==
    IF r.op = "getMemoryAt"
    THEN \A i \in Handles : IsType(i, "Memory") =>
             ~(Start(entries[i]) <= r.arg /\ r.arg <= End(entries[i]))
    ELSE IF r.op = "getGlobalAt"
    THEN \A i \in Handles : IsType(i, "Global") =>
             ~(Start(entries[i]) <= r.arg /\ r.arg <= End(entries[i]))
    ELSE IF r.op = "getGlobalEndingAt"
    THEN \A i \in Handles : IsType(i, "Global") => End(entries[i]) # r.arg
    ELSE IF r.op = "getGlobal"
    THEN \A i \in Handles : IsType(i, "Global") => entries[i].name # r.name
    ELSE \A i \in Handles : IsType(i, "Global") =>
             ~PatternMatch(r.name, entries[i].name)

NameFits(r, i) ==
    IF r.op = "getGlobal"
    THEN entries[i].name = r.name
    ELSE PatternMatch(r.name, entries[i].name)

C11_FirstGlobalByName ==
    (result.op \in {"getGlobal", "getGlobal(pattern)"} /\ ~result.raised) =>
        /\ result.ret \in Handles
        /\ IsType(result.ret, "Global")
        /\ NameFits(result, result.ret)
        /\ \A i \in 1..(result.ret - 1) :
               IsType(i, "Global") => ~NameFits(result, i)

C11_Witness ==
    /\ result.op = "getGlobal"
    /\ result.name = "A"
    /\ ~result.raised
    /\ \E j \in Handles :
         /\ j > result.ret
         /\ IsType(j, "Global")
         /\ entries[j].name = "A"
    /\ \E k \in Handles : k < result.ret /\ ~IsType(k, "Global")

\* ---------------------------------------------------------------------- C12
\* C12: the entry getGlobalAt(address) returns is a Global whose range, from
\* its start to its end, holds the address, and the entry
\* getGlobalEndingAt(address) returns is a Global whose end is the address;
\* each returns an entry whenever some Global satisfies its condition.
InRange(i, a) == Start(entries[i]) <= a /\ a <= End(entries[i])

Named(r) ==
    CHOOSE i \in Handles :
        /\ IsType(i, "Global") /\ entries[i].name = r.name
        /\ \A j \in 1..(i - 1) :
               IsType(j, "Global") => entries[j].name # r.name

Elements(seq) == {seq[k] : k \in 1..Len(seq)}

IsABC ==
    \E a, b, c \in Handles :
        /\ {i \in Handles : IsType(i, "Global")} = {a, b, c}
        /\ entries[a].name = "A" /\ Start(entries[a]) = 0
        /\ entries[b].name = "B" /\ Start(entries[b]) = 10
        /\ entries[c].name = "C" /\ Start(entries[c]) = 20
        /\ a < b /\ b < c

C13_AdjacentGlobals ==
    (result.op = "getAdjacentGlobals" /\ ~result.raised) =>
        LET g == Named(result) IN
        /\ g \notin Elements(result.out)
        /\ result.arg = 1 =>
             \A i \in Elements(result.out) :
                 \/ End(entries[i]) = Start(entries[g]) - 1
                 \/ Start(entries[i]) = End(entries[g]) + 1
        /\ (IsABC /\ result.name = "B" /\ result.arg = 1) =>
             Elements(result.out) =
                 {i \in Handles : IsType(i, "Global") /\ i # g}

\* ---------------------------------------------------------------------- C14
\* C14: for every ordered pair of Globals with different names, the text
\* diagnose() returns holds an overlap line for the pair if and only if
\* their half-open ranges intersect: the start of each is below the end of
\* the other.  The test is the same for both orderings of a pair, so that a
\* Global strictly containing another is reported and abutting ones are not.
Globals == {i \in Handles : IsType(i, "Global")}

HalfOpenIntersect(g, g2) ==
    /\ Start(entries[g]) < End(entries[g2])
    /\ Start(entries[g2]) < End(entries[g])

Reported(kind, g, g2) ==
    \E k \in 1..Len(result.out) : result.out[k] = Finding(kind, g, g2)

C14_OverlapHalfOpen ==
    (result.op = "diagnose" /\ ~result.raised) =>
        \A g, g2 \in Globals :
            entries[g].name # entries[g2].name =>
                (Reported("overlap", g, g2) <=> HalfOpenIntersect(g, g2))

\* ---------------------------------------------------------------------- C15
\* C15: the text diagnose() returns holds a redefinition line for a name
\* exactly when two Globals with that name are attached to two different
\* Modules; every such line names two Globals of one name attached to
\* different Modules, so Globals of one name in one Module or in no Module
\* yield none.
DifferentModules(g, g2) ==
    /\ entries[g].name = entries[g2].name
    /\ entries[g].module # None
    /\ entries[g2].module # None
    /\ entries[g].module # entries[g2].module

C15_Redefinition ==
    (result.op = "diagnose" /\ ~result.raised) =>
        /\ \A g \in Globals :
               (\E g2 \in Globals : Reported("redefined", g, g2))
                   <=> (\E g2 \in Globals : DifferentModules(g, g2))
        /\ \A g, g2 \in Globals :
               Reported("redefined", g, g2) => DifferentModules(g, g2)

C15_Witness ==
    /\ result.op = "diagnose"
    /\ ~result.raised
    /\ \E g, g2 \in Globals : Reported("redefined", g, g2)

\* ---------------------------------------------------------------------- C16
\* C16: for every Global the text diagnose() returns holds a line when the
\* Global ends above the end of the Memory region that contains its start,
\* a line when it starts below that region's start, and, for a Global that
\* has a Module, a line when it ends above the Module's end and a line when
\* it starts below the Module's start; a Global without a Module gets no
\* Module line.
Region(g) ==
    CHOOSE m \in Handles :
        /\ IsType(m, "Memory") /\ InRange(m, Start(entries[g]))
        /\ \A k \in 1..(m - 1) :
               IsType(k, "Memory") => ~InRange(k, Start(entries[g]))

HasRegion(i) ==
    \E m \in Handles : IsType(m, "Memory") /\ InRange(m, Start(entries[i]))

C18_SizePercent ==
    result.op = "sizePercent" =>
        LET e == entries[result.arg] IN
        /\ e.size <= 0 => (~result.raised /\ result.out = <<0, 1>>)
        /\ (e.size > 0 /\ HasRegion(result.arg)) =>
             LET total == entries[Region(result.arg)].size IN
             /\ ~result.raised
             /\ total <= 0 => result.out = <<1, 1>>
             /\ total > 0 =>
                  result.out[1] * total = e.size * result.out[2]

C18_Witness ==
    /\ result.op = "sizePercent"
    /\ ~result.raised
    /\ entries[result.arg].size > 0
    /\ entries[Region(result.arg)].size <= 0
    /\ result.out = <<1, 1>>
    /\ \E i \in Handles : entries[i].size <= 0 /\ ~HasRegion(i)

\* ---------------------------------------------------------------------- C17
\* C17: the list self.differences(other) yields is made as follows.  A Global
\* of other yields "Only right" exactly when no Global of self has its name.
\* A Global of other whose name a Global of self has yields, against a Global
\* of self of that name, "Location different" exactly when their addresses
\* differ and "Size different" exactly when their sizes differ.  The tuples
\* of other's Globals come in other's order.  After them every name of self
\* that no Global of other has yields "Only left", in self's order, and no
\* other name does.  For self = {x} and other = {x at another address with
\* the same size, y} the list is ("Location different", x, x), ("Only
\* right", none, y).
OtherGlobals == EntriesByType(other.entries, "Global")

NamesOf(es) == {es[i].name : i \in EntriesByType(es, "Global")}

Yielded(kind, g1, g2) ==
    \E k \in 1..Len(result.out) : result.out[k] = Difference(kind, g1, g2)

FirstOfName(g) ==
    CHOOSE i \in Globals :
        /\ entries[i].name = entries[g].name
        /\ \A j \in Globals : entries[j].name = entries[g].name => i <= j

C17_Differences ==
    result.op = "differences" =>
        LET out == result.out
            es2 == other.entries
        IN
        /\ \A g2 \in OtherGlobals :
               Yielded("Only right", None, g2)
                   <=> es2[g2].name \notin NamesOf(entries)
        /\ \A g2 \in OtherGlobals :
               es2[g2].name \in NamesOf(entries) =>
                   \E g1 \in Globals :
                       /\ entries[g1].name = es2[g2].name
                       /\ Yielded("Location different", g1, g2)
                              <=> entries[g1].address # es2[g2].address
                       /\ Yielded("Size different", g1, g2)
                              <=> entries[g1].size # es2[g2].size
        /\ \A g1 \in Globals :
               (\E h \in Globals :
                    /\ entries[h].name = entries[g1].name
                    /\ Yielded("Only left", h, None))
                   <=> entries[g1].name \notin NamesOf(es2)
        /\ \A k, l \in 1..Len(out) :
               k < l =>
                   /\ out[k].kind = "Only left" => out[l].kind = "Only left"
                   /\ (out[k].g2 # None /\ out[l].g2 # None)
                          => out[k].g2 <= out[l].g2
                   /\ (out[k].kind = "Only left" /\ out[l].kind = "Only left")
                          => FirstOfName(out[k].g1) < FirstOfName(out[l].g1)
        /\ \A x \in Globals, x2, y \in OtherGlobals :
               ( /\ Globals = {x} /\ OtherGlobals = {x2, y} /\ x2 < y
                 /\ entries[x].name = es2[x2].name
                 /\ entries[x].name # es2[y].name
                 /\ entries[x].address # es2[x2].address
                 /\ entries[x].size = es2[x2].size ) =>
                   out = << Difference("Location different", x, x2),
                            Difference("Only right", None, y) >>

\* ---------------------------------------------------------------------- C19
\* C19: on a constructed map every call of getMemoryAt, getGlobal,
\* getGlobalAt, getGlobalEndingAt, getAdjacentGlobals, sizePercent, diagnose,
\* statsStr and differences is a pure read: the step of the call, whether it
\* returns or raises, and the step in which the caller takes the outcome
\* leave the entry list with every field of every entry unchanged, and the
\* entry list of the other map as well.
IsCall ==
    /\ pc = "done"
    /\ pc' = "done"
    /\ result' # result

C19_PureReads == [][IsCall => (entries' = entries /\ other' = other)]_vars

C19_Witness ==
    /\ result.op = "differences"
    /\ Len(result.out) >= 2
    /\ Globals # {}
    /\ OtherGlobals # {}

\* ---------------------------------------------------------------------- C20
\* C20: reading the end of an entry whose size is unknown raises an error
\* instead of giving a number, and on a parsed map no lookup reads the end
\* of such an entry: a call of getMemoryAt, getGlobalAt or getGlobalEndingAt
\* that has read the end of an entry of unknown size has raised, and no call
\* on a parsed map has read one.
EndsReadBy(r) ==
    IF r.op = "getMemoryAt"
    THEN EndsRead(entries, "Memory", TRUE, r.arg, r.ret)
    ELSE IF r.op = "getGlobalAt"
    THEN EndsRead(entries, "Global", TRUE, r.arg, r.ret)
    ELSE IF r.op = "getGlobalEndingAt"
    THEN EndsRead(entries, "Global", FALSE, r.arg, r.ret)
    ELSE {}

C20_NoEndOfUnknownSize ==
    /\ (\E i \in EndsReadBy(result) : ~SizeKnown(entries[i])) => result.raised
    /\ \A i \in EndsReadBy(result) : SizeKnown(entries[i])

\* ---------------------------------------------------------------------- C21
\* C21: a step of the symbol-map loop on a line that begins with '.' sets
\* currentModule and lastItem to none, sets okSection to true exactly when
\* the first token of the line is one of .bss, .tbss, data, .tdata, .data1,
\* .rodata, .txt, .txt.memcpy, and appends no entry, although the line
\* carries an address and a size.
BeginsWithDot(line) ==
    /\ ~line.indent
    /\ line.toks # <<>>
    /\ line.toks[1].k = "word"
    /\ line.toks[1].s \in DotWords

OnAllowList(word) ==
    word \in {".bss", ".tbss", "data", ".tdata", ".data1", ".rodata", ".txt",
              ".txt.memcpy"}

C21_SectionHeader ==
    [][ \A line \in MapLinesOf(report) :
          (pc = "map" /\ BeginsWithDot(line) /\ OnMapLine(line)) =>
              /\ currentModule' = None
              /\ lastItem' = None
              /\ okSection' = OnAllowList(line.toks[1].s)
              /\ entries' = entries
              /\ pc' = "map" ]_vars

C21_Witness ==
    /\ pc = "map"
    /\ ~okSection
    /\ currentModule = None
    /\ lastItem = None
    /\ \E i \in Handles : IsType(i, "Module")
    /\ \E i \in Handles : IsType(i, "Global") /\ entries[i].module # None

\* ---------------------------------------------------------------------- C22
\* C22: while okSection is false lines are ignored until the next section
\* header: no step appends or changes an entry, and a step on a line that
\* is no section header changes nothing of the parser state and raises
\* nothing.  Hence an entry is appended only under an allow-listed header
\* (okSection is false before the first header), and none before it.
C22_SkippedSection ==
    [][ (pc = "map" /\ ~okSection) =>
          /\ entries' = entries
          /\ \A line \in MapLinesOf(report) :
                (~BeginsWithDot(line) /\ OnMapLine(line)) =>
                    UNCHANGED <<pc, err, currentModule, lastItem, okSection>>
      ]_vars

C22_Witness ==
    /\ pc = "done"
    /\ ~okSection
    /\ \E i \in Handles : IsType(i, "Global")

\* A line of the symbol map that the row pattern matches with a section name
\* and with tokens int() accepts.
IsModuleRow(line) ==
    /\ ~IsEmptyLine(line) /\ ~BeginsWithDot(line)
    /\ MapMatch(line).ok /\ MapMatch(line).sectionName # ""
    /\ IsHexNumber(MapMatch(line).address)
    /\ MapMatch(line).hasSize => IsHexNumber(MapMatch(line).size)

\* The module rows there are in the line alphabets.
ModuleRows ==
    {line \in MapLines \cup MovedMapLines \cup UnsizedMapLines :
        IsModuleRow(line)}

\* C23: in an allowed section, a matching line with a non-empty section name
\* appends exactly one Module entry (size unknown when the row has no size
\* token, no owning module), makes it the current module and resets the last
\* Global to none, and leaves every earlier entry as it was.
C23_ModuleLine ==
    [][ (pc = "map" /\ okSection) =>
          \A line \in ModuleRows \cap MapLinesOf(report) :
            OnMapLine(line) =>
              LET m == MapMatch(line)
                  e == entries'[Len(entries')]
              IN /\ Len(entries') = Len(entries) + 1
                 /\ SubSeq(entries', 1, Len(entries)) = entries
                 /\ e.entryType = "Module"
                 /\ e.name = m.name
                 /\ e.address = HexValue(m.address)
                 /\ e.size = (IF m.hasSize THEN HexValue(m.size) ELSE Unknown)
                 /\ e.module = None
                 /\ currentModule' = Len(entries')
                 /\ lastItem' = None ]_vars

\* A Module of unknown size is the current module, appended after a Global
\* that was the last Global before it.
C23_Witness ==
    /\ pc = "map" /\ okSection /\ lastItem = None
    /\ currentModule = Len(entries)
    /\ currentModule # None
    /\ IsType(currentModule, "Module")
    /\ entries[currentModule].size = Unknown
    /\ currentModule > 1 /\ IsType(currentModule - 1, "Global")

\* A line of the symbol map that the row pattern matches without a section
\* name and with an address int() accepts.
IsGlobalRow(line) ==
    /\ ~IsEmptyLine(line) /\ ~BeginsWithDot(line)
    /\ MapMatch(line).ok /\ MapMatch(line).sectionName = ""
    /\ IsHexNumber(MapMatch(line).address)

\* C24: in an allowed section, a matching line without a section name appends
\* exactly one Global attached to the current module (none if there is none);
\* its end and access are the current module's end and access when there is
\* a current module, otherwise its end is unknown and its access is rwx.
C24_GlobalLine ==
    [][ \A line \in MapLinesOf(report) :
          (pc = "map" /\ okSection /\ IsGlobalRow(line) /\ OnMapLine(line)) =>
              LET m == MapMatch(line)
                  e == entries'[Len(entries')]
              IN /\ Len(entries') = Len(entries) + 1
                 /\ e.entryType = "Global"
                 /\ e.name = m.name
                 /\ e.address = HexValue(m.address)
                 /\ e.module = currentModule
                 /\ currentModule # None =>
                        /\ End(e) = End(entries[currentModule])
                        /\ e.access = entries[currentModule].access
                 /\ currentModule = None =>
                        /\ e.size = Unknown
                        /\ e.access = "rwx" ]_vars

\* The section headers there are in the line alphabets.
HeaderRows ==
    {line \in MapLines \cup MovedMapLines \cup UnsizedMapLines :
        BeginsWithDot(line)}

\* C25: a Global keeps the end and access it was created with unless the
\* next Global of the same module is appended while it is the last Global:
\* a step changes an entry only if that entry is the last Global and a
\* Global with the same owning module is appended, and a section header or a
\* module row leaves every entry as it was and no last Global behind, so no
\* Global of a following module or section changes an earlier Global's end.
C25_BackfillChainEnds ==
    [][ /\ \A i \in 1..Len(entries) :
              entries'[i] # entries[i] =>
                  /\ entries[i].entryType = "Global"
                  /\ lastItem = i
                  /\ Len(entries') = Len(entries) + 1
                  /\ entries'[Len(entries')].entryType = "Global"
                  /\ entries'[Len(entries')].module = entries[i].module
                  /\ entries'[i].access = entries[i].access
                  /\ currentModule' = currentModule
        /\ pc = "map" =>
              \A line \in (HeaderRows \cup (IF okSection THEN ModuleRows ELSE {}))
                              \cap MapLinesOf(report) :
                  OnMapLine(line) =>
                      /\ lastItem' = None
                      /\ SubSeq(entries', 1, Len(entries)) = entries ]_vars

\* A finished map in which the last Global of a module, followed by another
\* module and its Global, still reads the end of its own module.
C25_Witness ==
    /\ pc = "done"
    /\ \E i \in Handles :
          /\ IsType(i, "Global") /\ entries[i].module # None
          /\ i + 2 \in Handles
          /\ IsType(i + 1, "Module") /\ IsType(i + 2, "Global")
          /\ End(entries[i]) = End(entries[entries[i].module])
          /\ End(entries[i]) # Start(entries[i + 2]) - 1

\* A line of the region table that the row pattern matches with an origin
\* and a length int() accepts.
IsRegionRow(line) ==
    /\ RegionMatch(line).ok
    /\ IsHexNumber(RegionMatch(line).address)
    /\ IsHexNumber(RegionMatch(line).size)

\* C26: each matching line of the region table yields exactly one Memory
\* entry, appended in line order, whose start is the origin, whose size is
\* the length and whose access is the attributes token, and only in a text
\* that holds the header with "Attributes": a text without that header
\* yields no Memory entry.
C26_RegionRows ==
    [][ \A line \in RegionLinesOf(report) :
          (pc = "regions" /\ IsRegionRow(line) /\ OnRegionLine(line)) =>
              IF report.attr
              THEN LET m == RegionMatch(line)
                       e == entries'[Len(entries')]
                   IN /\ Len(entries') = Len(entries) + 1
                      /\ SubSeq(entries', 1, Len(entries)) = entries
                      /\ e.entryType = "Memory"
                      /\ e.name = m.name
                      /\ Start(e) = HexValue(m.address)
                      /\ e.size = HexValue(m.size)
                      /\ e.access = m.attributes
              ELSE entries' = entries ]_vars

\* C27: for two Globals of different names and positive sizes whose
\* half-open ranges intersect, the text diagnose() returns holds the overlap
\* line of the ordering whose first Global has the greater or equal start.
C27_OverlapReported ==
    (result.op = "diagnose" /\ ~result.raised) =>
        \A g, g2 \in Globals :
            (/\ entries[g].name # entries[g2].name
             /\ entries[g].size > 0 /\ entries[g2].size > 0
             /\ HalfOpenIntersect(g, g2)
             /\ Start(entries[g]) >= Start(entries[g2]))
                => Reported("overlap", g, g2)

\* diagnose() has returned for a map with two such Globals, the first
\* starting inside the second.
C27_Witness ==
    /\ result.op = "diagnose" /\ ~result.raised
    /\ \E g, g2 \in Globals :
          /\ entries[g].name # entries[g2].name
          /\ entries[g].size > 0 /\ entries[g2].size > 0
          /\ HalfOpenIntersect(g, g2)
          /\ Start(entries[g]) > Start(entries[g2])
          /\ Reported("overlap", g, g2)

\* The last Global of self with the name n, and the first Global of other
\* with the name n.
LastOfName(n) ==
    CHOOSE i \in Globals :
        /\ entries[i].name = n
        /\ \A j \in Globals : entries[j].name = n => j <= i

FirstOfOther(n) ==
    CHOOSE i \in OtherGlobals :
        /\ other.entries[i].name = n
        /\ \A j \in OtherGlobals : other.entries[j].name = n => i <= j

\* The positions of the "Only left" tuples yielded for the name n.
OnlyLeftOf(n) ==
    {k \in 1..Len(result.out) :
        /\ result.out[k].kind = "Only left"
        /\ entries[result.out[k].g1].name = n}

\* C28: self.differences(other) yields exactly one "Only left" for each name
\* of a Global of self that no Global of other has, and none for a name a
\* Global of other has, also when several Globals of a map have one name;
\* the Global of self compared with other's is the last of its name in entry
\* order.
C28_OnlyLeftOncePerName ==
    result.op = "differences" =>
        /\ \A n \in NamesOf(entries) :
               Cardinality(OnlyLeftOf(n)) =
                   IF n \in NamesOf(other.entries) THEN 0 ELSE 1
        /\ \A k \in 1..Len(result.out) :
               result.out[k].kind \in {"Location different", "Size different"}
                   => result.out[k].g1 =
                          LastOfName(other.entries[result.out[k].g2].name)
        /\ \A n \in NamesOf(entries) \cap NamesOf(other.entries) :
               LET g1 == LastOfName(n)
                   g2 == FirstOfOther(n)
               IN /\ Yielded("Location different", g1, g2)
                      <=> entries[g1].address # other.entries[g2].address
                  /\ Yielded("Size different", g1, g2)
                      <=> entries[g1].size # other.entries[g2].size

\* differences() has run on a self with two Globals of one name at different
\* addresses: other lacks the name and one "Only left" is yielded, or other
\* has it at the address of the first and the last is reported as moved.
C28_Witness ==
    /\ result.op = "differences"
    /\ \E g, h \in Globals :
          /\ g < h
          /\ entries[g].name = entries[h].name
          /\ entries[g].address # entries[h].address
          /\ \/ /\ entries[g].name \notin NamesOf(other.entries)
                /\ Yielded("Only left", h, None)
                /\ Cardinality(OnlyLeftOf(entries[g].name)) = 1
             \/ \E g2 \in OtherGlobals :
                   /\ other.entries[g2].address = entries[g].address
                   /\ Yielded("Location different", h, g2)

\* C29: diagnose() returns its findings exactly when the start of every
\* Global lies inside some Memory region by the containment test of
\* getMemoryAt; otherwise it fails with an error and returns no finding.  No
\* returned list holds a 'past start of memory' finding.
C29_DiagnoseNeedsRegions ==
    result.op = "diagnose" =>
        /\ ~result.raised <=> \A g \in Globals : HasRegion(g)
        /\ result.raised => result.out = <<>>
        /\ \A k \in 1..Len(result.out) :
               result.out[k].kind # "past start of memory"

\* diagnose() has failed on a map with a Global inside a region and a Global
\* inside none.
C29_Witness ==
    /\ result.op = "diagnose" /\ result.raised
    /\ \E g, h \in Globals : HasRegion(g) /\ ~HasRegion(h)

\* C30: the end of an entry reads as address + size.  Setting the end of an
\* entry to e leaves its address as it was and makes its end read e: so for
\* the last Global when the next Global n is appended, with e = n.start - 1.
\* An entry created with a negative size and an end e that is not negative
\* reads the end e: so for a Global appended under a module whose end is not
\* negative.
C30_EndReadsBack ==
    [][ \A line \in MapLinesOf(report) :
          (pc = "map" /\ okSection /\ IsGlobalRow(line) /\ OnMapLine(line)) =>
              LET n == entries'[Len(entries')] IN
              /\ lastItem # None =>
                     /\ entries'[lastItem].address = entries[lastItem].address
                     /\ entries'[lastItem].address + entries'[lastItem].size
                            = n.address - 1
              /\ (/\ currentModule # None
                  /\ entries[currentModule].address
                         + entries[currentModule].size >= 0) =>
                     n.address + n.size
                         = entries[currentModule].address
                              + entries[currentModule].size ]_vars

\* The last two entries are Globals of one module that does not end below
\* zero: the first had its end set when the second was created with the
\* module's end.
C30_Witness ==
    /\ pc = "map" /\ lastItem = Len(entries) /\ Len(entries) >= 3
    /\ currentModule # None
    /\ LET n == entries[Len(entries)]
           g == entries[Len(entries) - 1]
           m == entries[currentModule]
       IN /\ n.entryType = "Global" /\ g.entryType = "Global"
          /\ n.module = currentModule /\ g.module = currentModule
          /\ m.address + m.size >= 0
          /\ n.address + n.size = m.address + m.size
          /\ g.address + g.size = n.address - 1
          /\ g.size # Unknown

====
